---- MODULE Spec2Model ----
(***************************************************************************)
(* A model of packages/pyright-internal/src/common/cacheSerializer.ts:    *)
(* CacheSerializer (the structural codec) and SimpleSerializer (the flat  *)
(* codec).                                                                 *)
(*                                                                         *)
(* The input of a call is an object graph: a heap of objects, each with a  *)
(* class and an ordered list of properties, and a root value.  The         *)
(* recursion of CacheSerializer._serializeValue is modelled step by step   *)
(* with an explicit stack of activations, so that the identity table       *)
(* (context.seen, context.refCount) is part of the state.  JSON.stringify, *)
(* JSON.parse and _deserializeValue are functions of the encoded tree.     *)
(***************************************************************************)
EXTENDS Integers, Sequences, FiniteSets, TLC

\* Number of objects in the heap handed to the codecs.
NumObj == 2
\* Number of CacheSerializer.serialize calls followed in one behaviour of SpecCalls.
MaxCalls == 2

Obj == 1..NumObj
\* Depth at which the model stops following a runaway recursion (the host's
\* call stack is finite); an encode of a heap of NumObj objects needs NumObj + 1.
MaxDepth == NumObj + 2

TYPE_MARKERS ==
    [Map |-> "__Map__", Set |-> "__Set__", TextRange |-> "__TextRange__",
     TextRangeCollection |-> "__TextRangeCollection__",
     ParseNode |-> "__ParseNode__", Diagnostic |-> "__Diagnostic__",
     Date |-> "__Date__", RegExp |-> "__RegExp__", Circular |-> "__Circular__"]

(***************************************************************************)
(* JavaScript values.  k is the value's typeof ("null" for null, "throw"   *)
(* for a property whose getter raises when it is read), s a string's text, *)
(* n a number's value, o the heap address of an object.                    *)
(***************************************************************************)
Val(k, s, n, o) == [k |-> k, s |-> s, n |-> n, o |-> o]
Null == Val("null", "", 0, 0)
Undefined == Val("undefined", "", 0, 0)
Num(n) == Val("number", "", n, 0)
Str(s) == Val("string", s, 0, 0)
Fn == Val("function", "", 0, 0)
Ref(o) == Val("object", "", 0, o)
Getter == Val("throw", "", 0, 0)

Prop(key, val) == [key |-> key, val |-> val]
\* An object: its class (what instanceof / Array.isArray answer), its own
\* enumerable properties in insertion order (the elements of an Array, Set or
\* range collection, the entries of a Map), a Date's time value (-1: an invalid
\* Date), a RegExp's source and flags.
Object(cls, props, time, source, flags) ==
    [cls |-> cls, props |-> props, time |-> time, source |-> source, flags |-> flags]

(***************************************************************************)
(* Encoded trees (what _serializeValue returns and JSON carries) and       *)
(* decoded values share one shape.  t is "null", "undefined", "number",    *)
(* "string", "function", "array" or "object" (decoded values add "Date",   *)
(* "RegExp", "Map", "Set", "TextRangeCollection"); ks and cs are an        *)
(* object's keys and values, cs alone an array's elements.  id is not part *)
(* of the text: it records the identity the encoder assigned to the value  *)
(* the node encodes (-1: none).                                            *)
(***************************************************************************)
Node(t, v, n, id, ks, cs) == [t |-> t, v |-> v, n |-> n, id |-> id, ks |-> ks, cs |-> cs]
Leaf(t, v, n) == Node(t, v, n, -1, <<>>, <<>>)
NullLeaf == Leaf("null", "", 0)
UndefLeaf == Leaf("undefined", "", 0)
NumLeaf(n) == Leaf("number", "", n)
StrLeaf(s) == Leaf("string", s, 0)
Arr(cs) == Node("array", "", 0, -1, <<>>, cs)
Rec(ks, cs) == Node("object", "", 0, -1, ks, cs)
Wrap(tag, content, id) == Node("object", "", 0, id, <<tag>>, <<content>>)
\* A property value copied into the output as it is (value.category, value.id, ...).
Raw(v) == IF v.k = "object" THEN Leaf("native", "", v.o) ELSE Leaf(v.k, v.s, v.n)

\* Date.prototype.toISOString and new Date(text), on the time values 0 and 1.
ISO == <<"1970-01-01T00:00:00.000Z", "1970-01-01T00:00:00.001Z">>
toISOString(time) == ISO[time + 1]
NewDate(text) ==
    IF \E i \in DOMAIN ISO : ISO[i] = text
    THEN (CHOOSE i \in DOMAIN ISO : ISO[i] = text) - 1
    ELSE -1

VARIABLES
    heap,       \* the caller's object graph: Obj -> Object
    handles,    \* the values the caller may pass as the root of a call
    root,       \* the argument of the serialize call in progress (a Val)
    phase,      \* "idle", "ser" (inside serialize), "done", "raised", "overflow",
                \* "decoded" (deserialize ended), "flat" (SimpleSerializer.serialize ended)
    stack,      \* the activations of _serializeValue, innermost last
    context,    \* SerializationContext: seen, refs, refCount
    doc,        \* the text serialize returned, as the document JSON.parse reads from it
    calls,      \* serialize calls started so far
    steps,      \* steps of the serialize call in progress taken so far
    assigned,   \* the identities handed out in this call, in order: <<[o, n], ...>>
    markers,    \* the circular markers emitted in this call: {[o, n]}
    first,      \* the root and the outcome of the first serialize call
    given,      \* a text the caller holds from elsewhere (read back from a cache file)
    dres,       \* the outcome of CacheSerializer.deserialize
    flat        \* the outcome of SimpleSerializer.serialize

vars == <<heap, handles, root, phase, stack, context, doc, calls, steps, assigned, markers, first, given, dres, flat>>

Text(wf, top, version, data, refs) ==
    [wf |-> wf, top |-> top, version |-> version, data |-> data, refs |-> refs]
\* No text at all (nothing returned yet, nothing held).
NoDoc == [wf |-> TRUE, top |-> "none", version |-> UndefLeaf, data |-> UndefLeaf, refs |-> <<>>]

----------------------------------------------------------------------------
(* Property access *)

HasKey(ob, key) == \E i \in DOMAIN ob.props : ob.props[i].key = key
\* value[key]: an Array's length is its element count; a missing property is undefined.
Get(ob, key) ==
    IF HasKey(ob, key)
    THEN ob.props[CHOOSE i \in DOMAIN ob.props : ob.props[i].key = key].val
    ELSE IF ob.cls = "Array" /\ key = "length" THEN Num(Len(ob.props))
    ELSE Undefined

\* The three type guards; "raise" when a getter they read raises.
isTextRange(ob) ==
    LET start == Get(ob, "start")
        length == Get(ob, "length")
    IN  IF start.k = "throw" THEN "raise"
        ELSE IF start.k # "number" THEN "no"
        ELSE IF length.k = "throw" THEN "raise"
        ELSE IF length.k = "number" THEN "yes" ELSE "no"

isParseNode(ob) ==
    IF ~(HasKey(ob, "nodeType") /\ HasKey(ob, "id")) THEN "no"
    ELSE isTextRange(ob)

\* Mutant: the guard looks for the private field rule instead of range.
isDiagnosticRule(ob) ==
    HasKey(ob, "category") /\ HasKey(ob, "message") /\ HasKey(ob, "rule")
isDiagnostic(ob) ==
    HasKey(ob, "category") /\ HasKey(ob, "message") /\ HasKey(ob, "range")

----------------------------------------------------------------------------
(* One activation of _serializeValue that is waiting for its children *)

Frame(kind, obj, id, keys, pending, pre) ==
    [kind |-> kind, obj |-> obj, id |-> id, keys |-> keys, pending |-> pending,
     pre |-> pre, outKeys |-> <<>>, out |-> <<>>]

KeysOf(ob) == [i \in DOMAIN ob.props |-> ob.props[i].key]
ValsOf(ob) == [i \in DOMAIN ob.props |-> ob.props[i].val]
\* Array.from(value.entries()): k1, v1, k2, v2, ...; a Map's keys are strings here.
EntriesOf(ob) ==
    [i \in 1..(2 * Len(ob.props)) |->
        IF i % 2 = 1 THEN Str(ob.props[(i + 1) \div 2].key) ELSE ob.props[i \div 2].val]
Pairs(out) == [i \in 1..(Len(out) \div 2) |-> Arr(<<out[2 * i - 1], out[2 * i]>>)]

\* What _serializeValue does with an object it has not seen, after giving it
\* identity id: "leaf" with the node it returns at once, "push" with the
\* activation that goes on to encode children, or "raise".
Enter(ob, o, id) ==
    LET leaf(n) == [res |-> "leaf", node |-> n, frame |-> Frame("none", 0, 0, <<>>, <<>>, <<>>)]
        push(f) == [res |-> "push", node |-> UndefLeaf, frame |-> f]
        raise == [res |-> "raise", node |-> UndefLeaf, frame |-> Frame("none", 0, 0, <<>>, <<>>, <<>>)]
        tr == isTextRange(ob)
        pn == isParseNode(ob)
    IN  IF ob.cls = "Date" THEN
            IF ob.time < 0 THEN raise
            ELSE leaf(Wrap(TYPE_MARKERS.Date, StrLeaf(toISOString(ob.time)), id))
        ELSE IF ob.cls = "RegExp" THEN
            leaf(Wrap(TYPE_MARKERS.RegExp,
                      Rec(<<"source", "flags">>, <<StrLeaf(ob.source), StrLeaf(ob.flags)>>), id))
        ELSE IF ob.cls = "Map" THEN
            push(Frame("map", o, id, <<>>, EntriesOf(ob), <<>>))
        ELSE IF ob.cls = "Set" THEN
            push(Frame("set", o, id, <<>>, ValsOf(ob), <<>>))
        ELSE IF tr = "raise" THEN raise
        ELSE IF tr = "yes" THEN
            leaf(Wrap(TYPE_MARKERS.TextRange,
                      Rec(<<"start", "length">>,
                          <<Raw(Get(ob, "start")), Raw(Get(ob, "length"))>>), id))
        ELSE IF ob.cls = "TextRangeCollection" THEN
            push(Frame("trc", o, id, <<>>, ValsOf(ob), <<>>))
        ELSE IF pn = "raise" THEN raise
        ELSE IF pn = "yes" THEN
            IF Get(ob, "nodeType").k = "throw" \/ Get(ob, "id").k = "throw" THEN raise
            ELSE leaf(Wrap(TYPE_MARKERS.ParseNode,
                           Rec(<<"nodeType", "id", "start", "length">>,
                               <<Raw(Get(ob, "nodeType")), Raw(Get(ob, "id")),
                                 Raw(Get(ob, "start")), Raw(Get(ob, "length"))>>), id))
        ELSE IF isDiagnostic(ob) THEN
            IF Get(ob, "category").k = "throw" \/ Get(ob, "message").k = "throw" THEN raise
            ELSE push(Frame("diag", o, id, <<>>, <<Get(ob, "range")>>,
                            <<Raw(Get(ob, "category")), Raw(Get(ob, "message"))>>))
        ELSE IF ob.cls = "Array" THEN
            push(Frame("array", o, id, <<>>, ValsOf(ob), <<>>))
        ELSE
            push(Frame("record", o, id, KeysOf(ob), ValsOf(ob), <<>>))

\* The node a finished activation returns.
Build(f) ==
    IF f.kind = "map" THEN Wrap(TYPE_MARKERS.Map, Arr(Pairs(f.out)), f.id)
    ELSE IF f.kind = "set" THEN Wrap(TYPE_MARKERS.Set, Arr(f.out), f.id)
    ELSE IF f.kind = "trc" THEN
        Wrap(TYPE_MARKERS.TextRangeCollection,
             Rec(<<"items", "count">>, <<Arr(f.out), NumLeaf(Len(f.out))>>), f.id)
    ELSE IF f.kind = "diag" THEN
        Wrap(TYPE_MARKERS.Diagnostic,
             Rec(<<"category", "message", "range">>, f.pre \o f.out), f.id)
    ELSE IF f.kind = "array" THEN Node("array", "", 0, f.id, <<>>, f.out)
    ELSE Node("object", "", 0, f.id, f.outKeys, f.out)

\* The waiting activation f takes the encoded child for its current key or
\* element and moves on.  A record leaves out a key whose child encodes to undefined.
Deliver(f, node) ==
    LET next == [f EXCEPT !.pending = Tail(@),
                          !.keys = IF @ = <<>> THEN @ ELSE Tail(@)]
    IN  IF f.kind = "record"
        THEN IF node.t = "undefined" THEN next
             ELSE [next EXCEPT !.outKeys = Append(@, Head(f.keys)), !.out = Append(@, node)]
        ELSE [next EXCEPT !.out = Append(@, node)]

\* The try/catch of the plain-object loop: the innermost record activation
\* drops its current key; every activation above it is abandoned.
Catcher(stk) ==
    IF \E i \in DOMAIN stk : stk[i].kind = "record"
    THEN CHOOSE i \in DOMAIN stk :
            stk[i].kind = "record" /\ \A j \in DOMAIN stk : stk[j].kind = "record" => j <= i
    ELSE 0

Top == stack[Len(stack)]
Cur == Head(Top.pending)
Busy == phase = "ser" /\ stack # <<>> /\ Top.pending # <<>>
ReplaceTop(f) == [stack EXCEPT ![Len(stack)] = f]

----------------------------------------------------------------------------
(* JSON.stringify followed by JSON.parse, on an encoded tree: an undefined  *)
(* or function element of an array becomes null, an undefined or function   *)
(* value of an object loses its key.                                        *)

Absent(node) == node.t \in {"undefined", "function"}

RECURSIVE JSONValue(_)
JSONValue(node) ==
    IF node.t = "array" THEN
        [node EXCEPT !.cs = [i \in DOMAIN node.cs |->
            IF Absent(node.cs[i]) THEN NullLeaf ELSE JSONValue(node.cs[i])]]
    ELSE IF node.t = "object" THEN
        LET kept == SelectSeq([i \in DOMAIN node.cs |-> i], LAMBDA i : ~Absent(node.cs[i]))
        IN  [node EXCEPT !.ks = [j \in DOMAIN kept |-> node.ks[kept[j]]],
                         !.cs = [j \in DOMAIN kept |-> JSONValue(node.cs[kept[j]])]]
    ELSE node

\* JSON.stringify({version: 1, data: serialized, refs: context.refs}, null, 2)
Stringify(serialized, refs) ==
    [wf |-> TRUE, top |-> "object", version |-> NumLeaf(1),
     data |-> JSONValue(serialized), refs |-> refs]

----------------------------------------------------------------------------
(* CacheSerializer.serialize, step by step *)

NewContext == [seen |-> [o \in Obj |-> -1], refs |-> <<>>, refCount |-> 0]
NoOutcome == [root |-> Undefined, phase |-> "none", doc |-> NoDoc]
NoResult ==
    [status |-> "none", value |-> UndefLeaf, name |-> "", prefix |-> "", cause |-> "", text |-> NoDoc]
NoFlat == [status |-> "none", node |-> UndefLeaf, events |-> <<>>]

\* Mutant: one context shared by all calls instead of a fresh one per call.
SerializeSharedContext(r, max) ==
    /\ phase \in {"idle", "done", "raised", "decoded"}
    /\ calls < max
    /\ root' = r
    /\ phase' = "ser"
    /\ context' = context
    /\ stack' = <<Frame("top", 0, -1, <<>>, <<r>>, <<>>)>>
    /\ calls' = calls + 1
    /\ assigned' = <<>>
    /\ steps' = 0
    /\ markers' = {}
    /\ doc' = NoDoc
    /\ dres' = NoResult
    /\ UNCHANGED <<heap, handles, first, given, flat>>

\* The call starts: a fresh context, and _serializeValue(data, context) is entered.
Serialize(r, max) ==
    /\ phase \in {"idle", "done", "raised", "decoded"}
    /\ calls < max
    /\ root' = r
    /\ phase' = "ser"
    /\ context' = NewContext
    /\ stack' = <<Frame("top", 0, -1, <<>>, <<r>>, <<>>)>>
    /\ calls' = calls + 1
    /\ assigned' = <<>>
    /\ steps' = 0
    /\ markers' = {}
    /\ doc' = NoDoc
    /\ dres' = NoResult
    /\ UNCHANGED <<heap, handles, first, given, flat>>

\* null, undefined and scalars are returned as they are; a function gives undefined.
VisitPrimitive ==
    /\ Busy
    /\ Cur.k \notin {"object", "throw"}
    /\ stack' = ReplaceTop(Deliver(Top, IF Cur.k = "function" THEN UndefLeaf ELSE Raw(Cur)))
    /\ steps' = steps + 1
    /\ UNCHANGED <<heap, handles, root, phase, context, doc, calls, assigned, markers, first, given, dres, flat>>

\* context.seen.has(value): the circular marker, and no descent.
VisitSeen ==
    /\ Busy
    /\ Cur.k = "object"
    /\ context.seen[Cur.o] >= 0
    /\ stack' = ReplaceTop(Deliver(Top,
                    Wrap(TYPE_MARKERS.Circular, NumLeaf(context.seen[Cur.o]), -1)))
    /\ markers' = markers \cup {[o |-> Cur.o, n |-> context.seen[Cur.o]]}
    /\ steps' = steps + 1
    /\ UNCHANGED <<heap, handles, root, phase, context, doc, calls, assigned, first, given, dres, flat>>

Unseen == Busy /\ Cur.k = "object" /\ context.seen[Cur.o] < 0
\* Mutant: the counter is read but not advanced.
MarkSeenSameId(ctx, o) == [ctx EXCEPT !.seen[o] = ctx.refCount]
\* Mutant: the identity is counted but the value is not entered in the table.
MarkSeenForgets(ctx, o) == [ctx EXCEPT !.refCount = ctx.refCount + 1]
\* const refId = context.refCount++; context.seen.set(value, refId)
MarkSeen(ctx, o) ==
    [ctx EXCEPT !.seen[o] = ctx.refCount, !.refCount = ctx.refCount + 1]
Entered == Enter(heap[Cur.o], Cur.o, context.refCount)

\* A first visit that returns without recursing (Date, RegExp, text range, parse node).
VisitLeaf ==
    /\ Unseen
    /\ Entered.res = "leaf"
    /\ context' = MarkSeen(context, Cur.o)
    /\ assigned' = Append(assigned, [o |-> Cur.o, n |-> context.refCount])
    /\ stack' = ReplaceTop(Deliver(Top, Entered.node))
    /\ steps' = steps + 1
    /\ UNCHANGED <<heap, handles, root, phase, doc, calls, markers, first, given, dres, flat>>

\* A first visit that goes on to encode children.
Descend ==
    /\ Unseen
    /\ Entered.res = "push"
    /\ context' = MarkSeen(context, Cur.o)
    /\ assigned' = Append(assigned, [o |-> Cur.o, n |-> context.refCount])
    /\ IF Len(stack) >= MaxDepth
       THEN phase' = "overflow" /\ stack' = stack
       ELSE phase' = phase /\ stack' = Append(stack, Entered.frame)
    /\ steps' = steps + 1
    /\ UNCHANGED <<heap, handles, root, doc, calls, markers, first, given, dres, flat>>

\* The outcome of the first call of a behaviour is kept for comparison.
Outcome(ph, d) ==
    IF first.phase = "none" THEN [root |-> root, phase |-> ph, doc |-> d] ELSE first

\* A getter raises: while value[key] is read, or inside the first visit of an
\* object (a type guard, a field copied into a tagged node, toISOString).
\* The innermost plain-object loop catches it; with none, serialize raises.
Raise ==
    /\ Busy
    /\ \/ Cur.k = "throw"
       \/ Unseen /\ Entered.res = "raise"
    /\ context' = IF Cur.k = "object" THEN MarkSeen(context, Cur.o) ELSE context
    /\ assigned' = IF Cur.k = "object"
                   THEN Append(assigned, [o |-> Cur.o, n |-> context.refCount])
                   ELSE assigned
    /\ LET c == Catcher(stack)
       IN  IF c = 0
           THEN phase' = "raised" /\ stack' = <<>> /\ first' = Outcome("raised", NoDoc)
           ELSE /\ phase' = phase
                /\ stack' = Append(SubSeq(stack, 1, c - 1),
                                   [stack[c] EXCEPT !.pending = Tail(@), !.keys = Tail(@)])
                /\ first' = first
    /\ steps' = steps + 1
    /\ UNCHANGED <<heap, handles, root, doc, calls, markers, given, dres, flat>>

\* An activation has encoded all its children and returns to its caller.
Return ==
    /\ phase = "ser"
    /\ Len(stack) > 1
    /\ Top.pending = <<>>
    /\ stack' = Append(SubSeq(stack, 1, Len(stack) - 2),
                       Deliver(stack[Len(stack) - 1], Build(Top)))
    /\ steps' = steps + 1
    /\ UNCHANGED <<heap, handles, root, phase, context, doc, calls, assigned, markers, first, given, dres, flat>>

\* serialize returns JSON.stringify({version: 1, data: serialized, refs: context.refs}).
Finish ==
    /\ phase = "ser"
    /\ Len(stack) = 1
    /\ Top.pending = <<>>
    /\ doc' = Stringify(Top.out[1], context.refs)
    /\ phase' = "done"
    /\ stack' = <<>>
    /\ first' = Outcome("done", doc')
    /\ steps' = steps + 1
    /\ UNCHANGED <<heap, handles, root, context, calls, assigned, markers, given, dres, flat>>

Step == VisitPrimitive \/ VisitSeen \/ VisitLeaf \/ Descend \/ Raise \/ Return \/ Finish

----------------------------------------------------------------------------
(* CacheSerializer.deserialize *)

Has(node, key) == node.t = "object" /\ \E i \in DOMAIN node.ks : node.ks[i] = key
\* node[key]; destructuring a key that is not there gives undefined.
Field(node, key) ==
    IF Has(node, key) THEN node.cs[CHOOSE i \in DOMAIN node.ks : node.ks[i] = key]
    ELSE UndefLeaf

Composite(d) == d.t \notin {"null", "undefined", "number", "string", "boolean"}
\* new Set(values): a primitive already in the set is not added again; every
\* reconstructed object is a new object.
NewSet(values) ==
    SelectSeq([i \in DOMAIN values |-> i],
              LAMBDA i : Composite(values[i]) \/ \A j \in 1..(i - 1) : values[j] # values[i])
\* new TextRangeCollection(items)
NewTextRangeCollection(items) == Node("TextRangeCollection", "", 0, -1, <<>>, items.cs)

\* DeserializationContext as deserialize creates it: the Map refs is empty.
NewDeserializationContext == [refs |-> <<>>]

RECURSIVE deserializeValue(_, _, _)
deserializeValue(value, ctx, refs) ==
    LET sub(v) == deserializeValue(v, ctx, refs)
        all(vs) == [i \in DOMAIN vs |-> sub(vs[i])]
    IN  IF value.t \notin {"object", "array"} THEN value
        ELSE IF Has(value, TYPE_MARKERS.Circular) THEN
            LET refId == Field(value, TYPE_MARKERS.Circular)
            IN  IF refId.t = "number" /\ refId.n \in DOMAIN ctx.refs
                THEN ctx.refs[refId.n]
                ELSE NullLeaf
        ELSE IF Has(value, TYPE_MARKERS.Date) THEN
            Node("Date", "", NewDate(Field(value, TYPE_MARKERS.Date).v), -1, <<>>, <<>>)
        ELSE IF Has(value, TYPE_MARKERS.RegExp) THEN
            LET re == Field(value, TYPE_MARKERS.RegExp)
            IN  Node("RegExp", Field(re, "source").v, 0, -1, <<Field(re, "flags").v>>, <<>>)
        ELSE IF Has(value, TYPE_MARKERS.Map) THEN
            LET entries == Field(value, TYPE_MARKERS.Map).cs
            IN  Node("Map", "", 0, -1, <<>>,
                     [i \in DOMAIN entries |-> Arr(all(entries[i].cs))])
        ELSE IF Has(value, TYPE_MARKERS.Set) THEN
            LET values == all(Field(value, TYPE_MARKERS.Set).cs)
                kept == NewSet(values)
            IN  Node("Set", "", 0, -1, <<>>, [j \in DOMAIN kept |-> values[kept[j]]])
        ELSE IF Has(value, TYPE_MARKERS.TextRange) THEN
            LET tr == Field(value, TYPE_MARKERS.TextRange)
            IN  Rec(<<"start", "length">>, <<Field(tr, "start"), Field(tr, "length")>>)
        ELSE IF Has(value, TYPE_MARKERS.TextRangeCollection) THEN
            NewTextRangeCollection(sub(Field(Field(value, TYPE_MARKERS.TextRangeCollection), "items")))
        ELSE IF Has(value, TYPE_MARKERS.ParseNode) THEN
            LET pn == Field(value, TYPE_MARKERS.ParseNode)
            IN  Rec(<<"nodeType", "id", "start", "length">>,
                    <<Field(pn, "nodeType"), Field(pn, "id"), Field(pn, "start"), Field(pn, "length")>>)
        ELSE IF Has(value, TYPE_MARKERS.Diagnostic) THEN
            LET dg == Field(value, TYPE_MARKERS.Diagnostic)
            IN  Rec(<<"category", "message", "range">>,
                    <<Field(dg, "category"), Field(dg, "message"), sub(Field(dg, "range"))>>)
        ELSE IF value.t = "array" THEN Arr(all(value.cs))
        ELSE Rec(value.ks, all(value.cs))

\* The error deserialize's catch block throws: new Error(`Failed to deserialize cache: ${e}`).
Failed(json, cause) ==
    [status |-> "throw", value |-> UndefLeaf, name |-> "Error",
     prefix |-> "Failed to deserialize cache: ", cause |-> cause, text |-> json]
Returned(json, value) ==
    [status |-> "value", value |-> value, name |-> "", prefix |-> "", cause |-> "", text |-> json]

\* !parsed.version
Falsy(v) ==
    \/ v.t \in {"undefined", "null"}
    \/ v.t = "number" /\ v.n = 0
    \/ v.t = "string" /\ v.v = ""
\* parsed.version !== 1
NotOne(v) == ~(v.t = "number" /\ v.n = 1)
\* Mutant: the two tests joined by && instead of ||.
UnsupportedBoth(parsed) == Falsy(parsed.version) /\ NotOne(parsed.version)
Unsupported(parsed) == Falsy(parsed.version) \/ NotOne(parsed.version)

deserialize(json) ==
    IF ~json.wf THEN Failed(json, "SyntaxError")
    ELSE IF json.top = "null" THEN Failed(json, "TypeError")
    ELSE IF Unsupported(json) THEN Failed(json, "Error: Unsupported cache version")
    ELSE Returned(json, deserializeValue(json.data, NewDeserializationContext, json.refs))

\* The caller decodes the text serialize just returned, or the text it holds.
Deserialize ==
    /\ \/ phase = "done"
       \/ phase = "idle" /\ given.top # "none"
    /\ dres' = deserialize(IF phase = "done" THEN doc ELSE given)
    /\ phase' = "decoded"
    /\ UNCHANGED <<heap, handles, root, stack, context, doc, calls, steps, assigned, markers, first, given, flat>>

----------------------------------------------------------------------------
(* SimpleSerializer.serialize: JSON.stringify(data, replacer, 2).           *)
(* JSON.stringify reads a property, applies the value's toJSON (a Date      *)
(* becomes its ISO string, an invalid Date null) and only then calls the    *)
(* replacer; it serializes what the replacer returns.                       *)

FlatState(seen, events, raised) == [seen |-> seen, events |-> events, raised |-> raised]
Event(st, o, how) == [st EXCEPT !.events = Append(@, [o |-> o, how |-> how])]

RECURSIVE FlatValue(_, _, _), FlatSeq(_, _, _)
\* One property or element: st.seen is the replacer's WeakSet.
FlatValue(h, v, st) ==
    IF v.k = "throw" THEN [node |-> UndefLeaf, st |-> [st EXCEPT !.raised = TRUE]]
    ELSE IF v.k # "object" THEN [node |-> Raw(v), st |-> st]
    ELSE IF h[v.o].cls = "Date" THEN
        [node |-> IF h[v.o].time < 0 THEN NullLeaf ELSE StrLeaf(toISOString(h[v.o].time)),
         st |-> Event(st, v.o, "text")]
    ELSE IF v.o \in st.seen THEN
        [node |-> StrLeaf("[Circular]"), st |-> Event(st, v.o, "circular")]
    ELSE
        LET ob == h[v.o]
            st1 == Event([st EXCEPT !.seen = @ \cup {v.o}], v.o, "full")
            kids == FlatSeq(h, IF ob.cls = "Map" THEN EntriesOf(ob) ELSE ValsOf(ob), st1)
        IN  [node |->
                IF ob.cls = "Map" THEN
                    Rec(<<"_type", "entries">>, <<StrLeaf("Map"), Arr(Pairs(kids.nodes))>>)
                ELSE IF ob.cls = "Set" THEN
                    Rec(<<"_type", "values">>, <<StrLeaf("Set"), Arr(kids.nodes)>>)
                ELSE IF ob.cls = "Array" THEN Arr(kids.nodes)
                ELSE Rec(KeysOf(ob), kids.nodes),
             st |-> kids.st]

FlatSeq(h, vals, st) ==
    IF vals = <<>> \/ st.raised THEN [nodes |-> <<>>, st |-> st]
    ELSE LET one == FlatValue(h, Head(vals), st)
             rest == FlatSeq(h, Tail(vals), one.st)
         IN  [nodes |-> <<one.node>> \o rest.nodes, st |-> rest.st]

SimpleSerialize(h, data) ==
    LET r == FlatValue(h, data, FlatState({}, <<>>, FALSE))
    IN  IF r.st.raised
        THEN [status |-> "throw", node |-> UndefLeaf, events |-> r.st.events]
        ELSE [status |-> "value", node |-> JSONValue(r.node), events |-> r.st.events]

FlatSerialize(r) ==
    /\ phase = "idle"
    /\ given.top = "none"
    /\ root' = r
    /\ flat' = SimpleSerialize(heap, r)
    /\ phase' = "flat"
    /\ UNCHANGED <<heap, handles, stack, context, doc, calls, steps, assigned, markers, first, given, dres>>

----------------------------------------------------------------------------
(* The object graphs the codecs are handed *)

\* The objects an object's properties refer to, and what a value reaches through them.
Succ(h, o) == {h[o].props[i].val.o : i \in {j \in DOMAIN h[o].props : h[o].props[j].val.k = "object"}}
RECURSIVE Close(_, _)
Close(h, S) ==
    LET T == S \cup UNION {Succ(h, o) : o \in S}
    IN  IF T = S THEN S ELSE Close(h, T)
\* The composite values reachable from v.
Reach(h, v) == IF v.k = "object" THEN Close(h, {v.o}) ELSE {}

KeyNames == <<"a", "b">>
IndexNames == <<"0", "1">>
Plain(cls, props) == Object(cls, props, 0, "", "")
Named(names, vals) == [i \in DOMAIN vals |-> Prop(names[i], vals[i])]
Container(c, kids) ==
    Plain(c, Named(IF c \in {"Object", "Map"} THEN KeyNames ELSE IndexNames, kids))
Containers == {"Object", "Array", "Map", "Set"}
\* A Set holds a value once.
Distinct(ob) ==
    ob.cls = "Set" => \A i, j \in DOMAIN ob.props : i # j => ob.props[i].val # ob.props[j].val
Empty == Plain("Object", <<>>)

\* Containers that refer to one another: odd-numbered objects of one class,
\* even-numbered ones of another.  Every object is reachable from object 1
\* (an object the root does not reach plays no part in a call).
GraphKids == UNION {[1..n -> {Ref(o) : o \in Obj}] : n \in 0..Len(KeyNames)}
GraphHeaps ==
    {h \in {[o \in Obj |-> Container(IF o % 2 = 1 THEN c1 ELSE c2, kids[o])] :
                c1 \in Containers, c2 \in Containers, kids \in [Obj -> GraphKids]} :
        Reach(h, Ref(1)) = Obj /\ \A o \in Obj : Distinct(h[o])}
\* The caller passes object 1 of such a graph.
GraphRoots == {Ref(1)}

\* Object 1 of a shaped heap: the kinds the codec tells apart by class or by
\* the properties they expose, and records whose getters raise.
RangeProps == <<Prop("start", Num(3)), Prop("length", Num(4))>>
NodeProps == <<Prop("nodeType", Num(5)), Prop("id", Num(9))>> \o RangeProps
DiagnosticProps ==
    {<<Prop("category", c), Prop("message", Str("m")), Prop("range", r)>> \o extra :
        c \in {Num(1), Str("error")},
        r \in {Ref(2), Null},
        extra \in {<<>>, <<Prop("rule", Str("r"))>>, <<Prop("rule", Ref(2))>>, RangeProps}}
RaisingProps ==
    {<<Prop("a", Getter), Prop("b", Num(1))>>,
     <<Prop("a", Ref(2)), Prop("b", Getter)>>,
     <<Prop("start", Getter), Prop("a", Num(1))>>,
     <<Prop("start", Num(3)), Prop("length", Getter)>>,
     <<Prop("category", Getter), Prop("message", Str("m")), Prop("range", Null)>>,
     <<Prop("category", Num(1)), Prop("message", Getter), Prop("range", Null)>>,
     <<Prop("category", Num(1)), Prop("message", Str("m")), Prop("range", Getter)>>,
     <<Prop("nodeType", Num(5)), Prop("id", Getter), Prop("start", Num(3)), Prop("length", Num(4))>>}
RecordProps ==
    {RangeProps,
     RangeProps \o <<Prop("a", Ref(2))>>,
     <<Prop("start", Num(3)), Prop("length", Str("x"))>>,
     NodeProps,
     NodeProps \o <<Prop("child", Ref(2))>>,
     <<Prop("nodeType", Num(5)), Prop("id", Num(9))>>,
     <<Prop("a", Num(1)), Prop("b", Str("s"))>>,
     <<Prop("a", Ref(2))>>,
     <<Prop("a", Ref(2)), Prop("b", Ref(2))>>,
     <<Prop("a", Ref(1))>>,
     <<Prop("a", Undefined), Prop("b", Fn)>>,
     <<Prop("a", Null), Prop("b", Ref(2))>>}
ShapedObjects ==
    {Plain("Object", ps) : ps \in RecordProps \cup DiagnosticProps \cup RaisingProps}
    \cup {Object("Date", <<>>, t, "", "") : t \in {-1, 0, 1}}
    \cup {Object("RegExp", <<>>, 0, "a+", "g")}
    \cup {Plain("TextRangeCollection", Named(IndexNames, <<Ref(2)>>))}
\* (A range collection is an indexable container of text ranges with a count;
\* its items are its properties here, and it exposes no start or length.)
\* Object 2 of a shaped heap: something that holds object 1, or something it holds.
HelperObjects ==
    {ob \in {Container(c, kids) : c \in Containers,
                                  kids \in {<<Ref(1)>>, <<Ref(1), Ref(1)>>, <<Num(1), Ref(1)>>}} :
        Distinct(ob)}
    \cup {Plain("Object", RangeProps), Plain("Object", <<Prop("x", Num(1))>>),
          Object("Date", <<>>, 0, "", "")}
\* A range collection holds text ranges.
ShapedHeaps ==
    {[o \in Obj |-> IF o = 1 THEN sh[1] ELSE IF o = 2 THEN sh[2] ELSE Empty] :
        sh \in {p \in ShapedObjects \X HelperObjects :
                    p[1].cls = "TextRangeCollection" => p[2] = Plain("Object", RangeProps)}}

\* The caller passes either object of a shaped heap, or a primitive.
ShapedRoots == {Ref(1), Ref(2), Undefined, Num(7)}

\* Texts handed to deserialize that serialize did not produce.
GivenTexts ==
    {Text(FALSE, "garbled", UndefLeaf, UndefLeaf, <<>>),
     Text(TRUE, "null", UndefLeaf, UndefLeaf, <<>>),
     Text(TRUE, "array", UndefLeaf, UndefLeaf, <<>>)}
    \cup {Text(TRUE, "object", v, d, <<>>) :
            v \in {UndefLeaf, NullLeaf, NumLeaf(0), NumLeaf(1), NumLeaf(2), StrLeaf("1")},
            d \in {NullLeaf, NumLeaf(5), UndefLeaf}}

InitWith(h, t, rs) ==
    /\ heap = h
    /\ handles = rs
    /\ given = t
    /\ root = Undefined
    /\ phase = "idle"
    /\ stack = <<>>
    /\ context = NewContext
    /\ doc = NoDoc
    /\ calls = 0
    /\ assigned = <<>>
    /\ steps = 0
    /\ markers = {}
    /\ first = NoOutcome
    /\ dres = NoResult
    /\ flat = NoFlat

Init ==
    \/ \E h \in GraphHeaps : InitWith(h, NoDoc, GraphRoots)
    \/ \E h \in ShapedHeaps : InitWith(h, NoDoc, ShapedRoots)
    \/ \E t \in GivenTexts : InitWith([o \in Obj |-> Empty], t, {Undefined})

Next ==
    \/ \E r \in handles : Serialize(r, 1)
    \/ Step
    \/ Deserialize
    \/ \E r \in handles : FlatSerialize(r)

\* One process lifetime with a single call of each operation.
Spec == Init /\ [][Next]_vars

\* A caller that serializes again and again, decoding in between.
InitCalls == \E h \in ShapedHeaps : InitWith(h, NoDoc, ShapedRoots)
NextCalls ==
    \/ \E r \in handles : Serialize(r, MaxCalls)
    \/ Step
    \/ Deserialize
SpecCalls == InitCalls /\ [][NextCalls]_vars

----------------------------------------------------------------------------
(* Vocabulary of the properties: the shape of the caller's graph *)

Cyclic(h, v) == \E o \in Reach(h, v) : o \in Close(h, Succ(h, o))
\* The places that hold a reference to o among the objects reachable from v.
Holders(h, v, o) ==
    {<<p, i>> \in Reach(h, v) \X (1..(Len(KeyNames) + 3)) :
        i \in DOMAIN h[p].props /\ h[p].props[i].val = Ref(o)}
\* No composite value is reachable from v by two different paths.
TreeLike(h, v) ==
    /\ ~Cyclic(h, v)
    /\ \A o \in Reach(h, v) : Cardinality(Holders(h, v, o)) <= 1
\* The reachable objects whose encoding raises: a getter that raises, an invalid Date.
Raisers(h, v) ==
    {o \in Reach(h, v) :
        \/ h[o].cls = "Date" /\ h[o].time < 0
        \/ \E i \in DOMAIN h[o].props : h[o].props[i].val.k = "throw"}
Occurrences(o) == {i \in DOMAIN assigned : assigned[i].o = o}

RECURSIVE Nodes(_)
\* A tree's nodes.
Nodes(node) == {node} \cup UNION {Nodes(node.cs[i]) : i \in DOMAIN node.cs}
IsMarker(node) == Has(node, TYPE_MARKERS.Circular)

----------------------------------------------------------------------------
(* C2: during one serialize call every composite value is given exactly    *)
(* one identity, at its first visit and before its children are visited    *)
(* (an activation on the stack already has its identity in the table); the *)
(* identity a value was given is the one the table still holds and the one *)
(* every marker for it carries; no two values share an identity; a value   *)
(* is descended into at most once.                                         *)
C2_IdentityTable ==
    /\ \A i, j \in DOMAIN assigned :
        i # j => assigned[i].o # assigned[j].o /\ assigned[i].n # assigned[j].n
    /\ \A i \in DOMAIN assigned : context.seen[assigned[i].o] = assigned[i].n
    /\ \A o \in Obj : context.seen[o] >= 0 => Occurrences(o) # {}
    /\ \A m \in markers : \E i \in DOMAIN assigned : assigned[i] = m
    /\ \A k \in DOMAIN stack :
        stack[k].obj # 0 =>
            \E i \in DOMAIN assigned : assigned[i] = [o |-> stack[k].obj, n |-> stack[k].id]
    /\ phase = "done" =>
        \A node \in Nodes(doc.data) :
            IsMarker(node) =>
                \E i \in DOMAIN assigned : assigned[i].n = Field(node, TYPE_MARKERS.Circular).n

\* A revisited value has been answered with its marker, every object of the heap holding an identity.
C2_Witness ==
    /\ phase = "done"
    /\ markers # {}
    /\ Len(assigned) = NumObj
    /\ \E node \in Nodes(doc.data) : IsMarker(node)

----------------------------------------------------------------------------
(* C3: on every finite graph, cyclic ones included, a serialize call ends:  *)
(* while it runs it can always take a step, and it takes no more steps     *)
(* than the reachable part of the graph allows.  It descends into at most  *)
(* as many composite values as are reachable from the root, never          *)
(* exhausts the stack, and ends by raising only when the graph holds a     *)
(* getter that raises or an invalid Date (otherwise it returns).           *)
StepBound(h, v) ==
    LET slots(o) == 2 * Len(h[o].props) + 2
        RECURSIVE sum(_)
        sum(S) == IF S = {} THEN 0
                  ELSE LET o == CHOOSE x \in S : TRUE IN slots(o) + sum(S \ {o})
    IN  2 + sum(Reach(h, v))
C3_Terminates ==
    /\ phase = "ser" => ENABLED Step
    /\ steps <= StepBound(heap, root)
    /\ Len(assigned) <= Cardinality(Reach(heap, root))
    /\ phase # "overflow"
    /\ phase = "raised" => Raisers(heap, root) # {}

\* serialize has returned on a graph whose root lies on a cycle.
C3_Witness ==
    /\ phase = "done"
    /\ root.k = "object"
    /\ root.o \in Close(heap, Succ(heap, root.o))
    /\ Cardinality(Reach(heap, root)) = NumObj

----------------------------------------------------------------------------
(* C10: a serialize call does not depend on the calls before it: a later   *)
(* call on the root of the first call ends as the first call did, with the *)
(* same document; identities restart at 0; a marker is only emitted for a  *)
(* value this call has itself visited; refs is empty.                      *)
C10_Independent ==
    /\ (phase \in {"done", "raised"} /\ root = first.root) =>
            (phase = first.phase /\ doc = first.doc)
    /\ doc.refs = <<>>
    /\ assigned # <<>> => assigned[1].n = 0
    /\ \A m \in markers : Occurrences(m.o) # {}

\* A second call on the first call's root has returned a document with a marker.
C10_Witness ==
    /\ calls = MaxCalls
    /\ phase = "done"
    /\ root = first.root
    /\ markers # {}

----------------------------------------------------------------------------
(* C4 as stated: deserialize returns a value only for a well-formed text   *)
(* whose version is exactly 1; an absent or other version fails with a     *)
(* FormatError, an ill-formed text with a ParseError that wraps the cause,  *)
(* two different kinds of error.                                           *)
IsOne(v) == v.t = "number" /\ v.n = 1
Gated(r) == r.status = "value" => (r.text.wf /\ r.text.top # "null" /\ IsOne(r.text.version))
C4_TypedFailures ==
    phase = "decoded" =>
        /\ Gated(dres)
        /\ (dres.text.wf /\ ~IsOne(dres.text.version)) =>
                (dres.status = "throw" /\ dres.name = "FormatError")
        /\ ~dres.text.wf =>
                (dres.status = "throw" /\ dres.name = "ParseError" /\ dres.cause # "")

(* C4 amended: deserialize returns a value only for a well-formed text that *)
(* parses to a non-null value whose version is exactly the number 1; every  *)
(* other text fails, never with a default value, and always with the same   *)
(* kind of error: a plain Error whose message is "Failed to deserialize     *)
(* cache: " followed by the cause, which alone tells the cases apart (a     *)
(* SyntaxError, a TypeError for the text null, "Unsupported cache version").*)
C4_VersionGate ==
    phase = "decoded" =>
        /\ dres.status \in {"value", "throw"}
        /\ Gated(dres)
        /\ (~dres.text.wf \/ ~IsOne(dres.text.version)) => dres.status = "throw"
        /\ dres.status = "throw" =>
            /\ dres.name = "Error"
            /\ dres.prefix = "Failed to deserialize cache: "
            /\ dres.cause = IF ~dres.text.wf THEN "SyntaxError"
                            ELSE IF dres.text.top = "null" THEN "TypeError"
                            ELSE "Error: Unsupported cache version"

\* A document of version 2 has been refused.
C4_Witness ==
    /\ phase = "decoded"
    /\ dres.text.wf
    /\ dres.text.version = NumLeaf(2)
    /\ dres.status = "throw"
    /\ dres.cause = "Error: Unsupported cache version"

----------------------------------------------------------------------------
(* Vocabulary of C7 and C9: what an object exposes, and the node the        *)
(* encoder emitted for the value it gave identity n.                        *)
Exposes(ob, keys) == \A k \in keys : HasKey(ob, k)
Numeric(ob, keys) == \A k \in keys : Get(ob, k).k = "number"
Scalar(ob, keys) == \A k \in keys : Get(ob, k).k \in {"number", "string"}
Emitted(n) == {node \in Nodes(doc.data) : node.id = n}
Decoded(node) == deserializeValue(node, NewDeserializationContext, doc.refs)
Encoded == phase \in {"done", "decoded"}

\* node is the summary of the diagnostic ob, and decodes to its three fields.
Summary(ob, node) ==
    LET d == Decoded(node)
    IN  /\ node.ks = <<TYPE_MARKERS.Diagnostic>>
        /\ node.cs[1].ks = <<"category", "message", "range">>
        /\ node.cs[1].cs[1] = Raw(Get(ob, "category"))
        /\ node.cs[1].cs[2] = Raw(Get(ob, "message"))
        /\ d.t = "object"
        /\ d.ks = <<"category", "message", "range">>
        /\ d.cs[1] = Raw(Get(ob, "category"))
        /\ d.cs[2] = Raw(Get(ob, "message"))
        /\ d.cs[3] = Decoded(node.cs[1].cs[3])

----------------------------------------------------------------------------
(* C9: every object that exposes nodeType, id and a numeric start and      *)
(* length is encoded as a node whose single key is __ParseNode__ and whose *)
(* content is exactly nodeType, id, start and length (never a              *)
(* __TextRange__ node), and decodes to an object with those four fields.   *)
C9_ParseNodeTag ==
    Encoded =>
        \A i \in DOMAIN assigned :
            LET ob == heap[assigned[i].o]
            IN  (ob.cls = "Object" /\ Exposes(ob, {"nodeType", "id"})
                 /\ Numeric(ob, {"start", "length"})) =>
                    \A node \in Emitted(assigned[i].n) :
                        /\ node.ks = <<TYPE_MARKERS.ParseNode>>
                        /\ node.cs[1].ks = <<"nodeType", "id", "start", "length">>
                        /\ Decoded(node).ks = <<"nodeType", "id", "start", "length">>

----------------------------------------------------------------------------
(* C6: serialize never raises, whatever the value; when reading or         *)
(* encoding one property of a record raises, that key alone is left out of *)
(* the record and the record's other keys are encoded, at the root as      *)
(* anywhere else and during the shape probes as well.                      *)
Raising(ob) == \E i \in DOMAIN ob.props : ob.props[i].val.k = "throw"
Survivors(ob) ==
    LET kept == SelectSeq([i \in DOMAIN ob.props |-> i],
                          LAMBDA i : ob.props[i].val.k \notin {"throw", "undefined", "function"})
    IN  [j \in DOMAIN kept |-> ob.props[kept[j]].key]
C6_NeverRaises ==
    /\ phase # "raised"
    /\ (phase = "done" /\ root.k = "object" /\ heap[root.o].cls = "Object"
        /\ Raising(heap[root.o])) =>
            (doc.data.t = "object" /\ doc.data.ks = Survivors(heap[root.o]))

----------------------------------------------------------------------------
(* C8: in SimpleSerializer.serialize the first encounter of a composite    *)
(* value is encoded in full, and every later encounter of the same value,  *)
(* on a cycle or merely shared, is replaced by the string "[Circular]"     *)
(* without descending again.                                               *)
C8_LaterEncounters ==
    phase = "flat" =>
        \A j \in DOMAIN flat.events :
            IF \E i \in 1..(j - 1) : flat.events[i].o = flat.events[j].o
            THEN flat.events[j].how = "circular"
            ELSE flat.events[j].how \in {"full", "text"}

----------------------------------------------------------------------------
(* C5: a marker {__Circular__: n} met after the value that was given       *)
(* identity n has been reconstructed (the marker does not lie inside that  *)
(* value's own node) decodes to the reconstructed value; only a marker met *)
(* while its target is still being reconstructed decodes to null.          *)
C5_MarkersResolve ==
    (phase = "decoded" /\ dres.status = "value") =>
        \A m \in Nodes(doc.data) :
            IsMarker(m) =>
                \A t \in Emitted(Field(m, TYPE_MARKERS.Circular).n) :
                    IF m \in Nodes(t)
                    THEN Decoded(m) = NullLeaf
                    ELSE Decoded(m) = Decoded(t)

----------------------------------------------------------------------------
(* C1: for every acyclic value built only from the supported kinds,        *)
(* deserialize(serialize(v)) is structurally equal to v: the same kind at  *)
(* every node, the same scalars, the same order of elements and entries;   *)
(* values reachable by two paths included.                                 *)
RECURSIVE Unfold(_, _)
\* The value v of heap h written out as a tree, in the shape of decoded values.
Unfold(h, v) ==
    IF v.k # "object" THEN Raw(v)
    ELSE LET ob == h[v.o]
             kids == [i \in DOMAIN ob.props |-> Unfold(h, ob.props[i].val)]
         IN  IF ob.cls = "Date" THEN Node("Date", "", ob.time, -1, <<>>, <<>>)
             ELSE IF ob.cls = "RegExp" THEN Node("RegExp", ob.source, 0, -1, <<ob.flags>>, <<>>)
             ELSE IF ob.cls = "Map" THEN
                 Node("Map", "", 0, -1, <<>>,
                      [i \in DOMAIN kids |-> Arr(<<StrLeaf(ob.props[i].key), kids[i]>>)])
             ELSE IF ob.cls \in {"Set", "TextRangeCollection"} THEN
                 Node(ob.cls, "", 0, -1, <<>>, kids)
             ELSE IF ob.cls = "Array" THEN Arr(kids)
             ELSE Rec(KeysOf(ob), kids)
\* Every value reachable from v is of a supported kind: a valid timestamp, a
\* pattern, a mapping, a set, a range collection, a sequence, a text range
\* (start and length, nothing else) or a record that is neither a text range,
\* a parse node nor a diagnostic; properties hold null, scalars or such values.
Supported(h, v) ==
    /\ v.k \in {"null", "number", "string", "boolean", "object"}
    /\ \A o \in Reach(h, v) :
        /\ h[o].cls = "Date" => h[o].time >= 0
        /\ \A i \in DOMAIN h[o].props :
            h[o].props[i].val.k \in {"null", "number", "string", "boolean", "object"}
        /\ h[o].cls = "Object" =>
            \/ KeysOf(h[o]) = <<"start", "length">> /\ Numeric(h[o], {"start", "length"})
            \/ /\ ~Numeric(h[o], {"start", "length"})
               /\ ~Exposes(h[o], {"category", "message", "range"})
C1_RoundTrip ==
    (phase = "decoded" /\ calls = 1 /\ ~Cyclic(heap, root) /\ Supported(heap, root)) =>
        (dres.status = "value" /\ dres.value = Unfold(heap, root))

\* What does hold of the code: the round trip of a supported value in which no
\* composite value is reachable by two paths.
TreeRoundTrip ==
    (phase = "decoded" /\ calls = 1 /\ TreeLike(heap, root) /\ Supported(heap, root)) =>
        (dres.status = "value" /\ dres.value = Unfold(heap, root))

====
